---- MODULE Spec2Model ----
(***************************************************************************)
(* A model of humble-bundle-canary.py: one scheduled run scrapes the       *)
(* bundle pages, formats the titles, compares them with the most recently  *)
(* modified snapshot of the bucket, and on a change publishes a message    *)
(* and uploads a new snapshot named after the date.                        *)
(*                                                                         *)
(* Text is modelled as sequences of one-character strings, so that the     *)
(* regular expressions, the truncation, the JSON serialisation and the     *)
(* message length are computed character by character.                     *)
(***************************************************************************)
EXTENDS Naturals, Sequences, FiniteSets, TLC

VARIABLES
    pc,          \* where lambda_handler is: "start" (never invoked), "check", "notify", "save",
                 \*   "returned", "raised" (an exception left it)
    topics,      \* lambda_handler's local `topics`: category -> formatted topics
    bucket,      \* the S3 bucket: key -> [Body, LastModified]
    ret,         \* the value lambda_handler returned: "none", "true", "false"
    notification_sent,  \* lambda_handler's local `notification_sent`
    fetched,     \* what the run's page fetches did: "none", "all_failed", "some_ok"
    listed,      \* what get_files did in this run: "none", "raises", "empty", "entries"
    listing,     \* the Contents get_files returned, a sequence of [Key, LastModified]
    compared,    \* the key get_latest_file retrieved, or NoKey
    getOutcome,  \* what get_object did in this run: "none", "ok", "raises", "nothing"
    changed,     \* what check_new_topics did: "none", "new", "same", "error"
    sendOutcome, \* what became of the notification: "none", "rejected" (by the length guard),
                 \*   "no_arn", "raises", "no_metadata", "no_status", "200", "500"
    saveOutcome, \* what save_topics did: "none", "ok", "raises"
    savedKey,    \* the filename save_topics built in this run, or NoKey
    prev,        \* the run before this one, when it listed an empty bucket and returned:
                 \*   [topics, send, save, key, ret], or NoRun
    fin,         \* format_topic's argument (specification SpecFormat)
    fout,        \* format_topic's result (specification SpecFormat)
    fdone        \* whether format_topic has been applied (specification SpecFormat)

vars == <<pc, topics, bucket, ret, notification_sent, fetched, listed, listing, compared,
          getOutcome, changed, sendOutcome, saveOutcome, savedKey, prev, fin, fout, fdone>>

runVars == <<pc, topics, bucket, ret, notification_sent, fetched, listed, listing, compared,
             getOutcome, changed, sendOutcome, saveOutcome, savedKey, prev>>

fmtVars == <<fin, fout, fdone>>

----------------------------------------------------------------------------
(* Bounds *)

\* The number of calendar days, hence of snapshot keys and of LastModified values.
MaxDay == 2

\* The number of distinct LastModified values the storage service hands out.
MaxStamp == 2

\* The longest run of filler characters in format_topic's inputs (SpecFormat).
MaxBody == 33

----------------------------------------------------------------------------
(* Text *)

MAX_SMS_LENGTH == 160

WordChars ==
    {"a","b","c","d","e","f","g","h","i","j","k","l","m","n","o","p","q","r","s","t","u",
     "v","w","x","y","z","A","B","C","D","E","F","G","H","I","J","K","L","M","N","O","P",
     "Q","R","S","T","U","V","W","X","Y","Z","0","1","2","3","4","5","6","7","8","9","_"}

SpaceChars == {" ", "\n", "\t", "\r"}

\* The class [\w\s] of both regular expressions of format_topic.
WordOrSpace == WordChars \cup SpaceChars

PRESENTED_BY == <<" ","p","r","e","s","e","n","t","e","d"," ","b","y"," ">>
THE_HUMBLE == <<"T","h","e"," ","H","u","m","b","l","e"," ">>
BUNDLE == <<" ","B","u","n","d","l","e",":"," ">>
ELLIPSIS == <<".",".",".">>
QUOTE == <<"'">>

Min(S) == CHOOSE x \in S : \A y \in S : x <= y
Max(S) == CHOOSE x \in S : \A y \in S : x >= y

Rep(c, n) == [i \in 1..n |-> c]

\* s[i:] starts with lit.
MatchAt(s, i, lit) ==
    /\ i + Len(lit) - 1 <= Len(s)
    /\ SubSeq(s, i, i + Len(lit) - 1) = lit

\* The number of consecutive characters of class cs in s from position i on.
RunLen(s, i, cs) ==
    Max({n \in 0..(Len(s) + 1 - i) : \A j \in i..(i + n - 1) : s[j] \in cs})

RECURSIVE lstrip(_, _)
lstrip(s, cs) == IF s # <<>> /\ Head(s) \in cs THEN lstrip(Tail(s), cs) ELSE s

RECURSIVE rstrip(_, _)
rstrip(s, cs) ==
    IF s # <<>> /\ s[Len(s)] \in cs THEN rstrip(SubSeq(s, 1, Len(s) - 1), cs) ELSE s

\* str.strip(chars)
strip(s, cs) == rstrip(lstrip(s, cs), cs)

\* re.sub(r' presented by [\w\s]+$', '', s): the leftmost " presented by " that is
\* followed, up to the end of the string, by one or more characters of [\w\s].
sub_presented_by(s) ==
    LET n == Len(PRESENTED_BY)
        hits == {i \in 1..Len(s) :
                    /\ MatchAt(s, i, PRESENTED_BY)
                    /\ i + n <= Len(s)
                    /\ RunLen(s, i + n, WordOrSpace) = Len(s) + 1 - (i + n)}
    IN  IF hits = {} THEN s ELSE SubSeq(s, 1, Min(hits) - 1)

\* The end (exclusive) of the match of 'The Humble [\w\s]+ Bundle: ' at i, or 0: the
\* greedy [\w\s]+ takes the longest run after which " Bundle: " still follows.
humble_match_end(s, i) ==
    LET from == i + Len(THE_HUMBLE)
        ks == {k \in 1..RunLen(s, from, WordOrSpace) : MatchAt(s, from + k, BUNDLE)}
    IN  IF MatchAt(s, i, THE_HUMBLE) /\ ks # {}
        THEN from + Max(ks) + Len(BUNDLE)
        ELSE 0

\* re.sub(r'The Humble [\w\s]+ Bundle: ', '', s) from position p on: every
\* non-overlapping match, leftmost first, is removed.
RECURSIVE sub_humble_bundle_from(_, _)
sub_humble_bundle_from(s, p) ==
    LET hits == {i \in p..Len(s) : humble_match_end(s, i) # 0}
    IN  IF hits = {}
        THEN SubSeq(s, p, Len(s))
        ELSE SubSeq(s, p, Min(hits) - 1)
                \o sub_humble_bundle_from(s, humble_match_end(s, Min(hits)))

sub_humble_bundle(s) == sub_humble_bundle_from(s, 1)

\* The first two statements of format_topic: the text with both clauses removed.
clean_topic(topic_html) ==
    sub_humble_bundle(sub_presented_by(strip(topic_html, {" ", "\n"})))

\* A slip in the slice: one character too many is kept before the ellipsis.
format_topic_keeps28(topic_html) ==
    LET topic == clean_topic(topic_html)
    IN  QUOTE \o (IF Len(topic) > 30 THEN SubSeq(topic, 1, 28) \o ELLIPSIS ELSE topic) \o QUOTE

format_topic(topic_html) ==
    LET topic == clean_topic(topic_html)
    IN  QUOTE \o (IF Len(topic) > 30 THEN SubSeq(topic, 1, 27) \o ELLIPSIS ELSE topic) \o QUOTE

----------------------------------------------------------------------------
(* Serialisation and the notification text *)

RECURSIVE Join(_, _)
\* sep.join(parts)
Join(parts, sep) ==
    IF parts = <<>> THEN <<>>
    ELSE IF Len(parts) = 1 THEN parts[1]
    ELSE parts[1] \o sep \o Join(Tail(parts), sep)

LOWER == <<"a","b","c","d","e","f","g","h","i","j","k","l","m","n","o","p","q","r","s","t","u","v","w","x","y","z">>
UPPER == <<"A","B","C","D","E","F","G","H","I","J","K","L","M","N","O","P","Q","R","S","T","U","V","W","X","Y","Z">>

\* str.upper()
upper(s) ==
    [i \in 1..Len(s) |->
        IF \E j \in 1..Len(LOWER) : LOWER[j] = s[i]
        THEN UPPER[CHOOSE j \in 1..Len(LOWER) : LOWER[j] = s[i]]
        ELSE s[i]]

GAMES == <<"g","a","m","e","s">>
BOOKS == <<"b","o","o","k","s">>

\* The order in which a dict with the keys 'games' and 'books' is iterated: CPython 2.7
\* hashes 'books' to slot 3 and 'games' to slot 4 of the eight-slot table.
iteritems == <<BOOKS, GAMES>>

\* Every character of s as json.dumps writes it inside a string.
RECURSIVE json_escape(_)
json_escape(s) ==
    IF s = <<>> THEN <<>>
    ELSE (CASE Head(s) = "\"" -> <<"\\", "\"">>
            [] Head(s) = "\\" -> <<"\\", "\\">>
            [] Head(s) = "\n" -> <<"\\", "n">>
            [] Head(s) = "\t" -> <<"\\", "t">>
            [] Head(s) = "\r" -> <<"\\", "r">>
            [] OTHER -> <<Head(s)>>) \o json_escape(Tail(s))

json_string(s) == <<"\"">> \o json_escape(s) \o <<"\"">>

\* json.dumps / json.dump of a dict of category -> list of strings.
json_dumps(d) ==
    <<"{">>
    \o Join([i \in 1..Len(iteritems) |->
                json_string(iteritems[i]) \o <<":", " ", "[">>
                \o Join([j \in 1..Len(d[iteritems[i]]) |-> json_string(d[iteritems[i]][j])],
                        <<",", " ">>)
                \o <<"]">>],
            <<",", " ">>)
    \o <<"}">>

IsNoQuote(c) == c \notin {"'", "\""}

\* re.sub(r'[\'"]', '', s)
strip_quotes(s) == SelectSeq(s, IsNoQuote)

\* A slip in the comparison: the quote characters are not removed from both sides.
topics_differ_raw(current_topics, latest_topics_json) ==
    json_dumps(current_topics) # latest_topics_json

\* The comparison of check_new_topics: TRUE when the contents differ.
topics_differ(current_topics, latest_topics_json) ==
    strip_quotes(json_dumps(current_topics)) # strip_quotes(latest_topics_json)

\* The notification lambda_handler builds from the topics.
RECURSIVE build_notification(_, _)
build_notification(t, i) ==
    IF i > Len(iteritems) THEN <<>>
    ELSE upper(iteritems[i]) \o <<":", " ">> \o Join(t[iteritems[i]], <<",", " ">>)
            \o <<".", " ">> \o build_notification(t, i + 1)

\* A slip in the loop of lambda_handler: a category without topics is left out.
notification_skipping_empty(t) ==
    Join([i \in 1..Len(iteritems) |->
            IF t[iteritems[i]] = <<>> THEN <<>>
            ELSE upper(iteritems[i]) \o <<":", " ">> \o Join(t[iteritems[i]], <<",", " ">>)
                    \o <<".", " ">>],
         <<>>)

notification(t) == build_notification(t, 1)

\* A slip in the guard: the limit itself is rejected.
length_ok_strict(n) == n > 0 /\ n < MAX_SMS_LENGTH

\* The length guard of lambda_handler before send_notification.
length_ok(n) == n > 0 /\ n <= MAX_SMS_LENGTH

\* The dict lambda_handler hands to save_topics: every topic without its quotes.
json_topics(t) ==
    [c \in DOMAIN t |-> [j \in 1..Len(t[c]) |-> strip(t[c][j], {"'"})]]

----------------------------------------------------------------------------
(* The pages *)

BASE_URL == "https://www.humblebundle.com"

topics_urls == (GAMES :> "https://www.humblebundle.com") @@ (BOOKS :> "https://www.humblebundle.com/books")

T_RPG == <<"T","h","e"," ","H","u","m","b","l","e"," ","R","P","G"," ","B","u","n","d","l","e",":"," ","G","a","m","e"," ","O","n","e"," ","p","r","e","s","e","n","t","e","d"," ","b","y"," ","S","t","u","d","i","o"," ","X">>
T_TWO == <<"G","a","m","e"," ","T","w","o">>
T_CIV == <<"S","i","d"," ","M","e","i","e","r","s"," ","C","i","v","i","l","i","z","a","t","i","o","n"," ","C","o","m","p","l","e","t","e"," ","E","d","i","t","i","o","n">>
T_PAD == <<"\n"," "," ","T","a","b","l","e","t","o","p"," ","S","i","m","u","l","a","t","o","r"," ","D","e","l","u","x","e"," ","C","o","l","l","e","c","t","i","o","n"," ","\n">>
T_LONG == <<"T","h","e"," ","H","u","m","b","l","e"," ","S","t","r","a","t","e","g","y"," ","B","u","n","d","l","e",":"," ","S","i","d"," ","M","e","i","e","r","s"," ","C","i","v","i","l","i","z","a","t","i","o","n"," ","C","o","m","p","l","e","t","e"," ","p","r","e","s","e","n","t","e","d"," ","b","y"," ","F","i","r","a","x","i","s">>
T_GAME == <<"G","a","m","e">>
T_GAMES == <<"G","a","m","e","s">>
T_QUOTE == <<"D","o","n","'","t"," ","P","a","n","i","c">>

\* What requests.get and html.fromstring make of one URL.
FetchError == [kind |-> "fetch_error", hrefs |-> <<>>, titles |-> <<>>]
ParseError == [kind |-> "parse_error", hrefs |-> <<>>, titles |-> <<>>]
Page(h, t) == [kind |-> "page", hrefs |-> h, titles |-> t]

Web(g, b, m, s) ==
    (topics_urls[GAMES] :> g) @@ (topics_urls[BOOKS] :> b)
        @@ ((BASE_URL \o "/monthly") :> m) @@ ((BASE_URL \o "/store") :> s)

MonthlyPage == Page(<<"/store">>, <<T_CIV, T_PAD>>)
StorePage == Page(<<"/monthly">>, <<T_LONG, T_CIV>>)

\* The states of the site the runs meet: every fetch fails; the games page does not
\* parse; a tab of the games page does not parse; a tab cannot be fetched and the other
\* pages carry short titles; the pages carry long titles that make a notification of
\* exactly MAX_SMS_LENGTH characters; and of one character more.
Webs ==
    {Web(FetchError, FetchError, FetchError, FetchError),
     Web(ParseError, Page(<<>>, <<T_TWO>>), MonthlyPage, StorePage),
     Web(Page(<<"/monthly">>, <<T_GAME>>), FetchError, ParseError, StorePage),
     Web(Page(<<"/monthly", "/store">>, <<T_RPG, T_QUOTE>>), Page(<<>>, <<T_PAD>>),
         FetchError, Page(<<>>, <<T_TWO>>)),
     Web(Page(<<"/monthly", "/store">>, <<T_GAME>>), FetchError, MonthlyPage, StorePage),
     Web(Page(<<"/monthly", "/store">>, <<T_GAMES>>), FetchError, MonthlyPage, StorePage)}

Raised == [raised |-> TRUE, value |-> <<>>]
Returned(v) == [raised |-> FALSE, value |-> v]

\* Python's None where an html tree is expected.
None == [kind |-> "none", hrefs |-> <<>>, titles |-> <<>>]

scrape_html(html_tree) == IF html_tree = None THEN <<>> ELSE html_tree.titles

find_topic_urls(html_tree) == IF html_tree = None THEN <<>> ELSE html_tree.hrefs

RECURSIVE scrape_url(_, _, _)
scrape_url(web, url, follow) ==
    IF url = "" THEN Raised
    ELSE IF web[url].kind = "fetch_error" THEN Returned(<<>>)
    ELSE IF web[url].kind = "parse_error" THEN Raised
    ELSE IF follow
         THEN LET hrefs == find_topic_urls(web[url])
                  subs == [i \in 1..Len(hrefs) |-> scrape_url(web, BASE_URL \o hrefs[i], FALSE)]
              IN  IF \E i \in 1..Len(hrefs) : subs[i].raised
                  THEN Raised
                  ELSE Returned(Join([i \in 1..Len(hrefs) |-> subs[i].value], <<>>)
                                    \o scrape_html(web[url]))
         ELSE Returned(scrape_html(web[url]))

get_todays_topics(web) ==
    LET got == [c \in {GAMES, BOOKS} |-> scrape_url(web, topics_urls[c], TRUE)]
    IN  IF \E c \in {GAMES, BOOKS} : got[c].raised
        THEN Raised
        ELSE Returned([c \in {GAMES, BOOKS} |->
                          [j \in 1..Len(got[c].value) |-> format_topic(got[c].value[j])]])

\* What get_todays_topics makes of each state of the site, and whether every fetch of
\* the run failed.
Scrapes ==
    {[got |-> get_todays_topics(w),
      fetched |-> IF \A u \in DOMAIN w : w[u].kind = "fetch_error"
                  THEN "all_failed" ELSE "some_ok"] : w \in Webs}

----------------------------------------------------------------------------
(* The bucket *)

Days == 1..MaxDay
Stamps == 1..MaxStamp

\* datetime.datetime.now().strftime('%Y-%m-%d') + ".json" on day d of January 2018.
filename(d) == "2018-01-0" \o ToString(d) \o ".json"

NoKey == "-"
NoTopics == [c \in {GAMES, BOOKS} |-> <<>>]
NoRun == [topics |-> NoTopics, send |-> "none", save |-> "none", key |-> NoKey, ret |-> "none"]

\* The sequences that list every element of S once.
Orders(S) ==
    {p \in [1..Cardinality(S) -> S] : \A i, j \in 1..Cardinality(S) : p[i] = p[j] => i = j}

\* The Contents of a list_objects_v2 response that lists the keys in the order `keys`.
Contents(keys) ==
    [i \in 1..Len(keys) |-> [Key |-> keys[i], LastModified |-> bucket[keys[i]].LastModified]]

\* A slip in get_latest_file: the sort is ascending, so the oldest entry is taken.
get_latest_file_oldest(files) ==
    IF Len(files) = 0 THEN NoKey
    ELSE LET oldest == Min({files[i].LastModified : i \in 1..Len(files)})
         IN  files[Min({i \in 1..Len(files) : files[i].LastModified = oldest})].Key

\* The key get_latest_file asks get_object for: the first listed entry that carries
\* the largest LastModified.
get_latest_file(files) ==
    IF Len(files) = 0 THEN NoKey
    ELSE LET latest == Max({files[i].LastModified : i \in 1..Len(files)})
         IN  files[Min({i \in 1..Len(files) : files[i].LastModified = latest})].Key

\* A slip in the upload: the new snapshot replaces the content of the bucket.
upload_replacing(key, body, stamp) ==
    [k \in {key} |-> [Body |-> body, LastModified |-> stamp]]

\* The bucket after upload_fileobj of `body` under `key` at time `stamp`.
upload(key, body, stamp) ==
    [k \in DOMAIN bucket \cup {key} |->
        IF k = key THEN [Body |-> body, LastModified |-> stamp] ELSE bucket[k]]

----------------------------------------------------------------------------
(* One run of lambda_handler after another: specification Spec *)

InitRun ==
    /\ pc = "start"
    /\ topics = NoTopics
    /\ bucket = <<>>
    /\ ret = "none"
    /\ notification_sent = FALSE
    /\ fetched = "none"
    /\ listed = "none"
    /\ listing = <<>>
    /\ compared = NoKey
    /\ getOutcome = "none"
    /\ changed = "none"
    /\ sendOutcome = "none"
    /\ saveOutcome = "none"
    /\ savedKey = NoKey
    /\ prev = NoRun

Init ==
    /\ InitRun
    /\ fin = <<>>
    /\ fout = <<>>
    /\ fdone = FALSE

\* The boolean lambda_handler returns, as ret records it.
Bool(b) == IF b THEN "true" ELSE "false"

\* get_files: an empty list when the listing raises or the bucket holds no key,
\* else the listed Contents.
get_files(ls, keys) ==
    IF ls = "raises" THEN <<>>
    ELSE IF Cardinality(DOMAIN bucket) = 0 THEN <<>>
    ELSE Contents(keys)

\* A slip in check_new_topics: a snapshot that cannot be retrieved counts as a change.
check_new_topics_lenient(current_topics, prev_topics, get) ==
    IF Len(prev_topics) = 0 THEN Returned(TRUE)
    ELSE IF get # "ok" THEN Returned(TRUE)
    ELSE Returned(topics_differ(current_topics, bucket[get_latest_file(prev_topics)].Body))

\* check_new_topics on the listing prev_topics; `get` is what get_object does.
check_new_topics(current_topics, prev_topics, get) ==
    IF Len(prev_topics) = 0 THEN Returned(TRUE)
    ELSE IF get # "ok" THEN Raised
    ELSE Returned(topics_differ(current_topics, bucket[get_latest_file(prev_topics)].Body))

Responses == {"raises", "no_metadata", "no_status", "200", "500"}

\* send_notification: raises without an ARN, when publish raises and when the
\* response carries no ResponseMetadata; else whether the status code is 200.
send_notification(arn, resp) ==
    IF ~arn THEN Raised
    ELSE IF resp \in {"raises", "no_metadata"} THEN Raised
    ELSE Returned(resp # "no_status" /\ resp = "200")

\* save_topics: whether the upload went through.
save_topics(t, put) ==
    IF t = None THEN FALSE ELSE put = "ok"

\* A slip in the last line of lambda_handler: either success is enough.
lambda_return_either(sent, saved) == sent \/ saved

\* The last line of lambda_handler.
lambda_return(sent, saved) == sent /\ saved

\* lambda_handler, line 164: a scheduled invocation begins and scrapes the pages.
GetTodaysTopics ==
    /\ pc \in {"start", "returned", "raised"}
    /\ \E s \in Scrapes :
          /\ pc' = IF s.got.raised THEN "raised" ELSE "check"
          /\ topics' = IF s.got.raised THEN NoTopics ELSE s.got.value
          /\ fetched' = s.fetched
    /\ prev' = IF pc = "returned" /\ listed = "empty"
               THEN [topics |-> topics, send |-> sendOutcome, save |-> saveOutcome,
                     key |-> savedKey, ret |-> ret]
               ELSE NoRun
    /\ ret' = "none"
    /\ notification_sent' = FALSE
    /\ listed' = "none"
    /\ listing' = <<>>
    /\ compared' = NoKey
    /\ getOutcome' = "none"
    /\ changed' = "none"
    /\ sendOutcome' = "none"
    /\ saveOutcome' = "none"
    /\ savedKey' = NoKey
    /\ UNCHANGED <<bucket, fmtVars>>

\* lambda_handler, lines 166-175: the change check.
CheckNewTopics ==
    /\ pc = "check"
    /\ \E ls \in {"ok", "raises"}, keys \in Orders(DOMAIN bucket),
          get \in {"ok", "raises", "nothing"} :
          LET prev_topics == get_files(ls, keys)
              r == check_new_topics(topics, prev_topics, get)
          IN  /\ listed' = IF ls = "raises" THEN "raises"
                           ELSE IF Len(prev_topics) = 0 THEN "empty" ELSE "entries"
              /\ listing' = prev_topics
              /\ compared' = IF Len(prev_topics) > 0 /\ ~r.raised
                             THEN get_latest_file(prev_topics) ELSE NoKey
              /\ getOutcome' = IF Len(prev_topics) > 0 THEN get ELSE "none"
              /\ changed' = IF r.raised THEN "error" ELSE IF r.value THEN "new" ELSE "same"
              /\ pc' = IF ~r.raised /\ r.value THEN "notify" ELSE "returned"
              /\ ret' = IF r.raised THEN "false" ELSE IF r.value THEN ret ELSE "true"
    /\ UNCHANGED <<topics, bucket, notification_sent, fetched, sendOutcome, saveOutcome,
                   savedKey, prev, fmtVars>>

\* lambda_handler, lines 177-195: the notification is built, checked and sent.
Notify ==
    /\ pc = "notify"
    /\ IF length_ok(Len(notification(topics)))
       THEN \E arn \in BOOLEAN, resp \in Responses :
               LET r == send_notification(arn, resp)
               IN  /\ sendOutcome' = IF arn THEN resp ELSE "no_arn"
                   /\ notification_sent' = IF r.raised THEN FALSE ELSE r.value
                   /\ pc' = IF r.raised THEN "returned" ELSE "save"
                   /\ ret' = IF r.raised THEN "false" ELSE ret
       ELSE /\ sendOutcome' = "rejected"
            /\ notification_sent' = FALSE
            /\ pc' = "returned"
            /\ ret' = "false"
    /\ listing' = <<>>
    /\ compared' = NoKey
    /\ UNCHANGED <<topics, bucket, fetched, listed, getOutcome, changed, saveOutcome,
                   savedKey, prev, fmtVars>>

\* lambda_handler, lines 197-207: the snapshot is uploaded and the run returns.
SaveTopics ==
    /\ pc = "save"
    /\ \E d \in Days, stamp \in Stamps, put \in {"ok", "raises"} :
          LET topics_saved == save_topics(json_topics(topics), put)
          IN  /\ \A e \in Days : filename(e) \in DOMAIN bucket => e <= d
              /\ \A k \in DOMAIN bucket : bucket[k].LastModified <= stamp
              /\ savedKey' = filename(d)
              /\ saveOutcome' = IF topics_saved THEN "ok" ELSE "raises"
              /\ bucket' = IF topics_saved
                           THEN upload(filename(d), json_dumps(json_topics(topics)), stamp)
                           ELSE bucket
              /\ ret' = Bool(lambda_return(notification_sent, topics_saved))
    /\ pc' = "returned"
    /\ UNCHANGED <<topics, notification_sent, fetched, listed, listing, compared,
                   getOutcome, changed, sendOutcome, prev, fmtVars>>

Next == GetTodaysTopics \/ CheckNewTopics \/ Notify \/ SaveTopics

Spec == Init /\ [][Next]_vars

----------------------------------------------------------------------------
(* Properties of the runs *)

\* The outcomes of send_notification in which a collaborator or the configuration failed.
SendFailures == {"no_arn", "raises", "no_metadata", "no_status", "500"}

\* The outcomes of send_notification in which sns_client.publish was called.
PublishCalled == {"raises", "no_metadata", "no_status", "200", "500"}

\* s occurs in text.
Contains(text, s) == \E i \in 1..Len(text) : MatchAt(text, i, s)

\* C1 as stated: no exception ever escapes lambda_handler; whatever the collaborators
\* do, a run ends by returning a boolean.
C1_NoExceptionEscapes ==
    pc # "raised"

\* C2 as stated: in a run that detected a change and built a message of 1..160
\* characters, a failed send (send_notification raises, or returns false on a status
\* code that is absent or not 200) makes the run return false without saving a snapshot.
C2_FailedSendSkipsSave ==
    (/\ pc = "returned"
     /\ changed = "new"
     /\ length_ok(Len(notification(topics)))
     /\ sendOutcome \in SendFailures)
        => (ret = "false" /\ saveOutcome = "none")

\* C3: of two consecutive runs that scrape the same content, the first on an empty
\* bucket, with a message of at most 160 characters and no collaborator failing, the
\* first publishes once, saves once and returns true, and the second retrieves the
\* snapshot the first saved, finds no change and returns true without publishing or saving.
C3_SecondRunUnchanged ==
    (/\ pc = "returned"
     /\ prev.ret # "none"
     /\ prev.topics = topics
     /\ Len(notification(topics)) <= MAX_SMS_LENGTH
     /\ prev.send \notin SendFailures /\ prev.save # "raises"
     /\ listed # "raises" /\ getOutcome \notin {"raises", "nothing"}
     /\ sendOutcome \notin SendFailures /\ saveOutcome # "raises")
        => /\ prev.send = "200" /\ prev.save = "ok" /\ prev.ret = "true"
           /\ DOMAIN bucket = {prev.key}
           /\ bucket[prev.key].Body = json_dumps(json_topics(prev.topics))
           /\ listed = "entries" /\ getOutcome = "ok" /\ compared = prev.key
           /\ changed = "same"
           /\ ret = "true"
           /\ sendOutcome = "none" /\ saveOutcome = "none"

\* C3 witness: the second of two such runs has returned, on topics that carry quote
\* characters of their own and an ellipsis.
C3_Witness ==
    /\ pc = "returned" /\ ret = "true" /\ changed = "same"
    /\ prev.ret = "true" /\ prev.topics = topics
    /\ Len(topics[GAMES]) = 3 /\ Len(topics[BOOKS]) = 1

\* C4: when the listing holds entries and the selected snapshot cannot be retrieved
\* (get_object raises or yields nothing), the change check raises and the run returns
\* false at once, nothing published and nothing saved; so does every run whose change
\* check raises.
C4_CheckErrorAborts ==
    /\ getOutcome \in {"raises", "nothing"} => changed = "error"
    /\ changed = "error" =>
          /\ pc = "returned" /\ ret = "false"
          /\ sendOutcome = "none" /\ saveOutcome = "none" /\ savedKey = NoKey

\* C4 witness: a run found entries, failed to retrieve the selected one and returned.
C4_Witness ==
    pc = "returned" /\ listed = "entries" /\ getOutcome = "raises" /\ ret = "false"

\* C5: publish is only ever called with a message of at most 160 characters; a message
\* of exactly 160 characters passes the guard and is handed to send_notification; a
\* message of more than 160 characters makes the run return false, nothing published
\* and nothing saved.
C5_LengthLimit ==
    /\ sendOutcome \in PublishCalled => Len(notification(topics)) <= MAX_SMS_LENGTH
    /\ (pc \in {"save", "returned"} /\ changed = "new"
            /\ Len(notification(topics)) = MAX_SMS_LENGTH)
          => sendOutcome \in PublishCalled \cup {"no_arn"}
    /\ (pc \in {"save", "returned"} /\ changed = "new"
            /\ Len(notification(topics)) > MAX_SMS_LENGTH)
          => /\ pc = "returned" /\ ret = "false"
             /\ sendOutcome = "rejected" /\ saveOutcome = "none"

\* C5 witness: a run with a message of 161 characters was rejected, and the next run,
\* with a message of exactly 160 characters, published it.
C5_Witness ==
    /\ Len(notification(prev.topics)) = MAX_SMS_LENGTH + 1 /\ prev.send = "rejected"
    /\ Len(notification(topics)) = MAX_SMS_LENGTH /\ sendOutcome = "200"

\* C6: a run returns true exactly when either no change was detected (and then nothing
\* was published or saved) or a change was detected, the publish answered 200 and the
\* save succeeded; every other run that returns returns false.
C6_ReturnValue ==
    pc = "returned" =>
        /\ ret \in {"true", "false"}
        /\ ret = "true" <=>
              \/ changed = "same" /\ sendOutcome = "none" /\ saveOutcome = "none"
              \/ changed = "new" /\ sendOutcome = "200" /\ saveOutcome = "ok"
        /\ changed = "same" => ret = "true"

\* C6 witness: a run published with status 200, saved and returned true, after a run
\* that published with status 200, failed to save and returned false.
C6_Witness ==
    /\ pc = "returned" /\ ret = "true" /\ sendOutcome = "200" /\ saveOutcome = "ok"
    /\ prev.send = "200" /\ prev.save = "raises" /\ prev.ret = "false"

\* C7: the snapshot the change check retrieves is the first entry, in listing order,
\* among those that carry the largest LastModified of all objects of the bucket.
C7_LatestSnapshot ==
    compared # NoKey =>
        /\ {listing[i].Key : i \in 1..Len(listing)} = DOMAIN bucket
        /\ \E i \in 1..Len(listing) :
              /\ listing[i].Key = compared
              /\ \A k \in DOMAIN bucket : bucket[k].LastModified <= listing[i].LastModified
              /\ \A j \in 1..(i - 1) : listing[j].LastModified < listing[i].LastModified

\* C7 witness: two snapshots carry the same LastModified, the listing names the later
\* date first, and that first entry is the one retrieved.
C7_Witness ==
    /\ Len(listing) = 2
    /\ listing[1].LastModified = listing[2].LastModified
    /\ listing[1].Key = filename(2)
    /\ compared = filename(2)

\* C7 witness of the other case: the largest LastModified is not listed first.
C7_WitnessLaterEntry ==
    /\ Len(listing) = 2
    /\ listing[1].LastModified < listing[2].LastModified
    /\ compared = listing[2].Key

\* C8 as stated: once a key is written, the content stored under it never changes.
C8_Immutable ==
    [][\A k \in DOMAIN bucket : k \in DOMAIN bucket' /\ bucket'[k].Body = bucket[k].Body]_vars

\* C8 amended: the bucket changes only in the save of a run that has not saved yet, so
\* at most once per run; that save writes one object, under the key named after the
\* date of the save, and leaves every object under another key as it was.
C8_OneWriteUnderTodaysKey ==
    [][bucket' # bucket =>
          /\ pc = "save" /\ pc' = "returned"
          /\ saveOutcome = "none" /\ saveOutcome' = "ok"
          /\ savedKey' \in {filename(d) : d \in Days}
          /\ DOMAIN bucket' = DOMAIN bucket \cup {savedKey'}
          /\ \A k \in DOMAIN bucket \ {savedKey'} : bucket'[k] = bucket[k]]_vars

\* C8 witness: a run saved other topics under the key the run before it had saved, so
\* that the content stored under that key changed.
C8_Witness ==
    /\ pc = "returned" /\ saveOutcome = "ok"
    /\ prev.save = "ok" /\ prev.key = savedKey /\ prev.topics # topics
    /\ bucket[savedKey].Body = json_dumps(json_topics(topics))

\* C10: the notification is never empty: it names each category in upper case, so the
\* guard rejects a message only for being longer than 160 characters; and a run whose
\* fetches all fail, on an empty bucket or a listing that raises, hands the message of
\* the empty topic lists to send_notification and, when that returns, saves a snapshot
\* of empty lists.
C10_NeverEmpty ==
    /\ Len(notification(topics)) > 0
    /\ \A c \in {GAMES, BOOKS} : Contains(notification(topics), upper(c))
    /\ sendOutcome = "rejected" => Len(notification(topics)) > MAX_SMS_LENGTH
    /\ (fetched = "all_failed" /\ listed \in {"empty", "raises"}
            /\ pc \in {"save", "returned"})
          => /\ topics = NoTopics
             /\ changed = "new"
             /\ sendOutcome \in PublishCalled \cup {"no_arn"}
             /\ (pc = "returned" /\ sendOutcome \in {"no_status", "200", "500"})
                   => saveOutcome # "none"
             /\ saveOutcome = "ok"
                   => bucket[savedKey].Body = json_dumps(NoTopics)

\* C10 witness: every fetch failed, the listing raised, and the run published the
\* message and saved the snapshot of empty lists.
C10_Witness ==
    /\ pc = "returned" /\ fetched = "all_failed" /\ listed = "raises"
    /\ sendOutcome = "200" /\ saveOutcome = "ok" /\ ret = "true"
    /\ Len(notification(topics)) = 18

----------------------------------------------------------------------------
(* format_topic on its own: specification SpecFormat *)

Pads == {<<>>, <<"\n", " ">>}

Prefixes ==
    {<<>>,
     <<"T","h","e"," ","H","u","m","b","l","e"," ","R","P","G"," ","B","u","n","d","l","e",":"," ">>}

Suffixes ==
    {<<>>,
     <<" ","p","r","e","s","e","n","t","e","d"," ","b","y"," ","S","t","u","d","i","o"," ","X">>,
     <<" ","p","r","e","s","e","n","t","e","d"," ","b","y"," ","S","t","u","d","i","o","-","X">>}

FormatInputs ==
    {pad \o pre \o Rep("x", n) \o suf \o pad :
        pad \in Pads, pre \in Prefixes, n \in 0..MaxBody, suf \in Suffixes}

InitFormat ==
    /\ InitRun
    /\ fin \in FormatInputs
    /\ fout = <<>>
    /\ fdone = FALSE

FormatTopic ==
    /\ ~fdone
    /\ fout' = format_topic(fin)
    /\ fdone' = TRUE
    /\ UNCHANGED <<fin, runVars>>

NextFormat == FormatTopic

SpecFormat == InitFormat /\ [][NextFormat]_vars

\* format_topic's result without its two wrapping quotes.
Inner(s) == SubSeq(s, 2, Len(s) - 1)

\* C9 as stated: for any input longer than 30 characters, the output of format_topic
\* without its two wrapping quotes has length exactly 28.
C9_Length28 ==
    (fdone /\ Len(fin) > 30) => Len(Inner(fout)) = 28

\* C9 amended: the output is wrapped in two quotes and never holds more than 30
\* characters between them; when the cleaned text (trimmed, both clauses removed) is
\* longer than 30 characters, it holds exactly 30: the first 27 characters of the
\* cleaned text followed by the three characters of the ellipsis.
C9_Length30 ==
    fdone =>
        /\ Len(fout) >= 2 /\ fout[1] = "'" /\ fout[Len(fout)] = "'"
        /\ Len(Inner(fout)) <= 30
        /\ Len(clean_topic(fin)) > 30 =>
              /\ Len(Inner(fout)) = 30
              /\ SubSeq(Inner(fout), 1, 27) = SubSeq(clean_topic(fin), 1, 27)
              /\ SubSeq(Inner(fout), 28, 30) = ELLIPSIS
        /\ Len(clean_topic(fin)) <= 30 => Inner(fout) = clean_topic(fin)

\* C9 witness: an input longer than 30 characters whose cleaned text is longer than 30
\* characters too has been formatted.
C9_Witness ==
    fdone /\ Len(fin) > 30 /\ Len(clean_topic(fin)) > 30

====
